---- MODULE Spec2Model ----
(***************************************************************************)
(* Particle Christmas tree: the mode controller of App, the gesture        *)
(* classifier of HandController, the distribution samplers of geometry.ts, *)
(* the per-frame interpolation of ParticleSystem and the yaw of Scene.     *)
(*                                                                         *)
(* Numbers.  Normalised image coordinates and the rotation input are kept  *)
(* in hundredths (50 is 0.5), frame deltas in tenths of a second (1 is     *)
(* 0.1 s), the yaw in thousandths of a radian.                             *)
(***************************************************************************)
EXTENDS Integers, Sequences, FiniteSets, TLC

\* ------------------------------------------------------------------ bounds
MaxPhotos == 1
MaxPending == 2
MaxVideoTime == 1
GridMax == 2
RandSteps == 8
MaxSeed == 0
MaxCount == 2
MaxGenCount == 8
MaxGenSeed == 2
MaxFrames == 2
MaxDelta == 5
MaxRenders == 1

\* --------------------------------------------------------------- constants
TREE == "TREE"
EXPLODE == "EXPLODE"
AppStates == {TREE, EXPLODE}

NeutralPalmX == 50
PinchThreshold == 8
\* geometry.ts, lengths in hundredths
TREE_HEIGHT == 1800
TREE_RADIUS_BOTTOM == 700
ExplosionRadius == 30
StarMinRadius == 30
StarMaxRadius == 60

Abs(n) == IF n < 0 THEN -n ELSE n

Other(mode) == IF mode = TREE THEN EXPLODE ELSE TREE

\* floor of the square root of n >= 0, by Newton's iteration from above
RECURSIVE SqrtFrom(_, _)
SqrtFrom(n, x) ==
    LET y == (x + n \div x) \div 2 IN IF y >= x THEN x ELSE SqrtFrom(n, y)
Isqrt(n) == IF n = 0 THEN 0 ELSE SqrtFrom(n, n)

\* ------------------------------------------------------------- App (state)
VARIABLES appState, rotationInput, gestureStatus, photos, isPlaying
\* the <audio> element: its paused attribute and the play() promises that
\* are not settled yet, each with the handlers its caller attached
VARIABLES audioPaused, playPromises
\* HandController
VARIABLES loading, handLandmarker, stream, camera, listening, requestRef,
          videoTime, lastVideoTime
\* whether the component is mounted (its video and canvas refs are set),
\* whether the tracks of the acquired stream are running, and whether a
\* created landmarker has not been closed
VARIABLES mounted, tracksLive, modelOpen
\* history: the sample last handed to onGestureUpdate and the detection
\* results it was computed from, the App handler that ran last, a bit flipped
\* by every App handler, the mode that handler found, and the clicks since
\* the last hand-present sample with the mode that sample left
VARIABLES gesture, results, lastOp, opTick, prevMode, modeBeforeClicks, clickParity
\* history of the polling loop: what the last poll did, the video timestamp
\* of the last poll whose detection threw and the one of the last poll that
\* emitted a sample (-1: none yet)
VARIABLES pollKind, threwAt, sampleTime

\* ParticleSystem: its count and type props, the memoised arrays, the frames
\* drawn, the delta of the last one, the renders with new props, and the
\* stream of Math.random(): its seed and the number of calls made so far
VARIABLES count, type, treeData, explodePositions, currentPositions,
          frames, lastDelta, renders, rngSeed, rngCalls
\* the clock of the scene (tenths of a second) and the y of the position
\* last written to the instance matrix of each particle
VARIABLES elapsedTime, meshY
\* Scene: the yaw of the tree group (thousandths of a radian), its frames
VARIABLES yaw, sceneFrames, sceneDelta
\* the samplers of geometry.ts called on their own: the arguments, the stream
\* of Math.random() and what the three of them returned
VARIABLES genCount, genType, genSeed, genOut
\* one Polaroid: its index, the memoised tree and explode positions and
\* target rotation, the position and rotation of its group; its frames
VARIABLES polaroid, polaroidFrames

appVars == <<appState, rotationInput, gestureStatus, photos, isPlaying>>
audioVars == <<audioPaused, playPromises>>
lifeVars == <<mounted, tracksLive, modelOpen>>
handVars == <<loading, handLandmarker, stream, camera, listening, requestRef,
              videoTime, lastVideoTime, lifeVars>>
pollVars == <<pollKind, threwAt, sampleTime>>
histVars == <<gesture, results, lastOp, opTick, prevMode, modeBeforeClicks, clickParity,
              pollVars>>
partVars == <<count, type, treeData, explodePositions, currentPositions,
              frames, lastDelta, renders, rngSeed, rngCalls, elapsedTime, meshY>>
sceneVars == <<yaw, sceneFrames, sceneDelta>>
genVars == <<genCount, genType, genSeed, genOut>>
polaroidVars == <<polaroid, polaroidFrames>>
viewVars == <<partVars, sceneVars, genVars, polaroidVars>>
vars == <<appVars, audioVars, handVars, histVars, viewVars>>

\* --------------------------------------------------------- HTMLAudioElement
Owners == {"autoplay", "toggleState", "toggleMusic"}
Promise(owner, ok) == [owner |-> owner, ok |-> ok]

\* audio.play(): when the browser allows it the element leaves the paused
\* state at once and the promise resolves later; otherwise the promise is
\* rejected and the element stays as it was.
AudioPlay(owner, allowed) ==
    /\ audioPaused' = (IF allowed THEN FALSE ELSE audioPaused)
    /\ playPromises' = Append(playPromises, Promise(owner, allowed))

\* audio.pause(): pending play() promises are rejected
AudioPause ==
    /\ audioPaused' = TRUE
    /\ playPromises' = [i \in 1..Len(playPromises) |->
                           Promise(playPromises[i].owner, FALSE)]

\* ------------------------------------------------------------ App handlers
ToggleMode_stuck(prev) == EXPLODE

ToggleMode(prev) == IF prev = TREE THEN EXPLODE ELSE TREE

Touch(op) ==
    /\ lastOp' = op
    /\ opTick' = 1 - opTick
    /\ prevMode' = appState

toggleState ==
    /\ IF audioPaused /\ ~isPlaying
          THEN /\ Len(playPromises) < MaxPending
               /\ \E allowed \in BOOLEAN : AudioPlay("toggleState", allowed)
          ELSE UNCHANGED audioVars
    /\ appState' = ToggleMode(appState)
    /\ UNCHANGED <<rotationInput, gestureStatus, photos, isPlaying>>
    /\ UNCHANGED <<handVars, viewVars>>
    /\ Touch("toggleState")
    /\ clickParity' = 1 - clickParity
    /\ UNCHANGED <<gesture, results, modeBeforeClicks, pollVars>>

toggleMusic ==
    /\ IF isPlaying
          THEN /\ AudioPause
               /\ isPlaying' = FALSE
          ELSE /\ Len(playPromises) < MaxPending
               /\ \E allowed \in BOOLEAN : AudioPlay("toggleMusic", allowed)
               /\ isPlaying' = TRUE
    /\ UNCHANGED <<appState, rotationInput, gestureStatus, photos>>
    /\ UNCHANGED <<handVars, viewVars>>
    /\ Touch("toggleMusic")
    /\ UNCHANGED <<gesture, results, modeBeforeClicks, clickParity, pollVars>>

\* a play() promise settles and the handlers of its caller run; the element
\* settles its pending play promises in the order they were made
SettlePlay ==
    /\ playPromises # <<>>
    /\ LET p == Head(playPromises) IN
        /\ playPromises' = Tail(playPromises)
        /\ isPlaying' = CASE p.owner = "autoplay" -> p.ok
                          [] p.owner = "toggleState" /\ p.ok -> TRUE
                          [] OTHER -> isPlaying
        /\ UNCHANGED <<appState, rotationInput, gestureStatus, photos>>
        /\ UNCHANGED <<audioPaused>>
        /\ UNCHANGED <<handVars, viewVars>>
        /\ UNCHANGED histVars

\* URL.createObjectURL gives every file a fresh URL
NewUrls(n, k) == [j \in 1..k |-> n + j]

handlePhotoUpload ==
    \E k \in 0..(MaxPhotos - Len(photos)) :
        /\ photos' = photos \o NewUrls(Len(photos), k)
        /\ UNCHANGED <<appState, rotationInput, gestureStatus, isPlaying>>
        /\ UNCHANGED audioVars
        /\ UNCHANGED <<handVars, viewVars>>
        /\ Touch("handlePhotoUpload")
        /\ UNCHANGED <<gesture, results, modeBeforeClicks, clickParity, pollVars>>

GestureMode_swapped(g) == IF g.isPinching THEN EXPLODE ELSE TREE

GestureMode(g) == IF g.isPinching THEN TREE ELSE EXPLODE

\* handleGestureUpdate without the early return of the no-hand branch
handleGestureUpdate_noReturn(g) ==
    /\ rotationInput' = g.palmPositionX
    /\ appState' = GestureMode(g)
    /\ gestureStatus' = (IF g.isPinching THEN "Gesture: Pinch (Tree)"
                                         ELSE "Gesture: Open (Explode)")

\* the body of handleGestureUpdate: the App state it leaves
handleGestureUpdate(g) ==
    IF ~g.handPresent
       THEN /\ gestureStatus' = "No Hand Detected"
            /\ UNCHANGED <<appState, rotationInput>>
       ELSE /\ rotationInput' = g.palmPositionX
            /\ appState' = GestureMode(g)
            /\ gestureStatus' = (IF g.isPinching THEN "Gesture: Pinch (Tree)"
                                                 ELSE "Gesture: Open (Explode)")

\* onGestureUpdate(g) as HandController calls it
onGestureUpdate(g) ==
    /\ handleGestureUpdate(g)
    /\ UNCHANGED <<photos, isPlaying>>
    /\ gesture' = g
    /\ Touch("handleGestureUpdate")
    /\ IF g.handPresent
          THEN /\ modeBeforeClicks' = appState'
               /\ clickParity' = 0
          ELSE UNCHANGED <<modeBeforeClicks, clickParity>>

\* ---------------------------------------------------------- HandController
Point(x, y, z) == [x |-> x, y |-> y, z |-> z]
\* the landmarks of one hand that the classifier reads: 0 wrist, 4 thumb tip,
\* 8 index tip
Hand(wrist, thumbTip, indexTip) == (0 :> wrist) @@ (4 :> thumbTip) @@ (8 :> indexTip)
NoHands == [landmarks |-> <<>>]
OneHand(h) == [landmarks |-> <<h>>]

\* Math.sqrt(dx^2 + dy^2) in hundredths, fraction dropped: a comparison with
\* a whole number of hundredths is not affected
Distance(a, b) == Isqrt((a.x - b.x) * (a.x - b.x) + (a.y - b.y) * (a.y - b.y))

IsPinching_inclusive(thumbTip, indexTip) == Distance(thumbTip, indexTip) <= PinchThreshold

IsPinching(thumbTip, indexTip) == Distance(thumbTip, indexTip) < PinchThreshold

\* the sample predictWebcam builds from the detection results
Classify(res) ==
    IF Len(res.landmarks) > 0
       THEN LET landmarks == res.landmarks[1] IN
            [isPinching |-> IsPinching(landmarks[4], landmarks[8]),
             handPresent |-> TRUE,
             palmPositionX |-> landmarks[0].x]
       ELSE [isPinching |-> FALSE, handPresent |-> FALSE,
             palmPositionX |-> NeutralPalmX]

\* what one poll meets: whether the video has dimensions, whether
\* detectForVideo throws, whether the canvas gives a 2d context, and the
\* detection results
Outcome(dims, throws, ctx, res) == [dims |-> dims, throws |-> throws, ctx |-> ctx, res |-> res]
Outcomes(D) ==
    {Outcome(FALSE, FALSE, TRUE, NoHands), Outcome(TRUE, TRUE, TRUE, NoHands)}
    \cup {Outcome(TRUE, FALSE, c, r) : c \in BOOLEAN, r \in D}

\* startWebcam up to its await
startWebcam(supported) == camera' = (IF supported THEN "pending" ELSE "unsupported")

\* initHandLandmarker after both awaits succeeded
initResolved ==
    /\ loading
    /\ handLandmarker' = TRUE
    /\ modelOpen' = TRUE
    /\ loading' = FALSE
    /\ \E supported \in BOOLEAN : startWebcam(supported)
    /\ UNCHANGED <<stream, listening, requestRef, videoTime, lastVideoTime>>
    /\ UNCHANGED <<mounted, tracksLive>>
    /\ UNCHANGED <<appVars, audioVars, histVars, viewVars>>

\* initHandLandmarker when an await threw: the catch block
initRejected ==
    /\ loading
    /\ loading' = FALSE
    /\ UNCHANGED <<handLandmarker, stream, camera, listening, requestRef,
                   videoTime, lastVideoTime, lifeVars>>
    /\ UNCHANGED <<appVars, audioVars, histVars, viewVars>>

\* startWebcam after getUserMedia resolved
webcamGranted ==
    /\ camera = "pending"
    /\ camera' = "granted"
    /\ stream' = TRUE
    /\ tracksLive' = TRUE
    /\ listening' = mounted
    /\ UNCHANGED <<loading, handLandmarker, requestRef, videoTime, lastVideoTime>>
    /\ UNCHANGED <<mounted, modelOpen>>
    /\ UNCHANGED <<appVars, audioVars, histVars, viewVars>>

\* startWebcam registering the loadeddata listener although getUserMedia rejected
webcamDenied_stillListens ==
    /\ camera = "pending"
    /\ camera' = "denied"
    /\ listening' = TRUE
    /\ UNCHANGED <<loading, handLandmarker, stream, requestRef, videoTime, lastVideoTime>>
    /\ UNCHANGED lifeVars
    /\ UNCHANGED <<appVars, audioVars, histVars, viewVars>>

\* startWebcam when getUserMedia rejected: the catch block
webcamDenied ==
    /\ camera = "pending"
    /\ camera' = "denied"
    /\ UNCHANGED <<loading, handLandmarker, stream, listening, requestRef,
                   videoTime, lastVideoTime, lifeVars>>
    /\ UNCHANGED <<appVars, audioVars, histVars, viewVars>>

\* the camera delivers another video frame
videoFrame ==
    /\ camera = "granted"
    /\ tracksLive
    /\ videoTime < MaxVideoTime
    /\ videoTime' = videoTime + 1
    /\ UNCHANGED <<loading, handLandmarker, stream, camera, listening, requestRef,
                   lastVideoTime, lifeVars>>
    /\ UNCHANGED <<appVars, audioVars, histVars, viewVars>>

\* video && canvas && landmarker: the refs of an unmounted component are null
RefsSet == mounted /\ handLandmarker

Emits_ignoresThrow(o) ==
    /\ RefsSet
    /\ videoTime # lastVideoTime
    /\ o.dims /\ o.ctx

Emits_ungated(o) ==
    /\ RefsSet
    /\ o.dims /\ ~o.throws /\ o.ctx

\* whether this poll emits a sample
Emits(o) ==
    /\ RefsSet
    /\ videoTime # lastVideoTime
    /\ o.dims /\ ~o.throws /\ o.ctx

\* what a poll on outcome o does: nothing without the refs, nothing on a
\* timestamp already processed, nothing when the video has no dimensions or
\* the canvas no context, nothing when detectForVideo throws, else a sample
PollKind(o) ==
    IF ~RefsSet THEN "idle"
    ELSE IF videoTime = lastVideoTime THEN "stale"
    ELSE IF ~o.dims THEN "skipped"
    ELSE IF o.throws THEN "threw"
    ELSE IF ~o.ctx THEN "skipped"
    ELSE "sample"

\* the body of predictWebcam on outcome o
predictWebcam(o) ==
    /\ lastVideoTime' = (IF RefsSet /\ videoTime # lastVideoTime
                            THEN videoTime ELSE lastVideoTime)
    /\ IF Emits(o)
          THEN /\ onGestureUpdate(Classify(o.res))
               /\ results' = o.res
          ELSE UNCHANGED <<appVars, gesture, results, lastOp, opTick, prevMode,
                           modeBeforeClicks, clickParity>>
    /\ pollKind' = PollKind(o)
    /\ threwAt' = (IF PollKind(o) = "threw" THEN videoTime ELSE threwAt)
    /\ sampleTime' = (IF PollKind(o) = "sample" THEN videoTime ELSE sampleTime)
    /\ requestRef' = TRUE
    /\ UNCHANGED <<audioVars, viewVars>>
    /\ UNCHANGED <<loading, handLandmarker, stream, camera, videoTime, lifeVars>>

\* the cleanup of the mount effect, React having cleared the refs of the
\* video and the canvas: the scheduled callback is cancelled, the tracks of
\* a stream already stored are stopped, a landmarker already stored is closed
unmount ==
    /\ mounted
    /\ mounted' = FALSE
    /\ requestRef' = FALSE
    /\ tracksLive' = (IF stream THEN FALSE ELSE tracksLive)
    /\ modelOpen' = (IF handLandmarker THEN FALSE ELSE modelOpen)
    /\ UNCHANGED <<loading, handLandmarker, stream, camera, listening,
                   videoTime, lastVideoTime>>
    /\ UNCHANGED <<appVars, audioVars, histVars, viewVars>>

\* the loadeddata event of the video element
loadedData(D) ==
    /\ listening
    /\ listening' = FALSE
    /\ \E o \in Outcomes(D) : predictWebcam(o)

\* the callback requestAnimationFrame scheduled
animationFrame(D) ==
    /\ requestRef
    /\ UNCHANGED listening
    /\ \E o \in Outcomes(D) : predictWebcam(o)

\* --------------------------------------------------------- detection inputs
PalmXs == {10, NeutralPalmX, 90}
Grid == {50 + 4 * k : k \in 0..GridMax}
Depths == {0, 40}
ThumbTips == {Point(50, 50, 0)}
IndexTips == {Point(x, y, z) : x \in Grid, y \in Grid, z \in Depths}
AllHands == {Hand(Point(w, 80, 0), t, i) : w \in PalmXs, t \in ThumbTips, i \in IndexTips}
AllDetections == {NoHands} \cup {OneHand(h) : h \in AllHands}
\* a pinching hand on the left, an open hand on the right, and no hand
FewDetections ==
    {NoHands,
     OneHand(Hand(Point(10, 80, 0), Point(50, 50, 0), Point(54, 54, 40))),
     OneHand(Hand(Point(90, 80, 0), Point(50, 50, 0), Point(58, 50, 0)))}

\* ============================================================== geometry.ts
\* Lengths, positions and scales are kept in hundredths, angles in whole
\* degrees, sines and cosines in thousandths; every product is cut towards
\* zero, so no modelled length exceeds the one the source computes.
TruncDiv(a, b) == IF a >= 0 THEN a \div b ELSE -((-a) \div b)

\* floor of the cube root of n, 0 <= n <= 10^6
Icbrt(n) == CHOOSE r \in 0..100 : r * r * r <= n /\ (r + 1) * (r + 1) * (r + 1) > n

\* Math.random(): draw n of the stream started at seed, in RandSteps-ths
Draw(seed, n) == (seed * (n + 1) + (n * (n + 1)) \div 2) % RandSteps

\* rand(min, max), min and max in hundredths
rand(min, max, u) == (u * (max - min)) \div RandSteps + min

\* Math.sin and Math.cos of an angle in degrees (Bhaskara's rational
\* approximation, exact at every multiple of 90 degrees)
SinHalfTurn(d) == (4 * d * (180 - d) * 1000) \div (40500 - d * (180 - d))
Sin(deg) == LET d == deg % 360 IN IF d <= 180 THEN SinHalfTurn(d) ELSE -SinHalfTurn(d - 180)
Cos(deg) == Sin(deg + 90)
\* rand(0, Math.PI * 2) in degrees
randAngle(u) == (360 * u) \div RandSteps
\* Math.random() * Math.PI in thousandths of a radian
randHalfTurn(u) == (3142 * u) \div RandSteps

ConeRadius_cylinder(y) == TREE_RADIUS_BOTTOM

\* TREE_RADIUS_BOTTOM * (1 - normalizedY) at height y
ConeRadius(y) == (TREE_RADIUS_BOTTOM * (TREE_HEIGHT - (y + TREE_HEIGHT \div 2))) \div TREE_HEIGHT

\* Math.pow(r, 0.4) in hundredths: the square of the fifth root, the root in
\* fiftieths
Pow04(u) ==
    LET n == (312500000 \div RandSteps) * u
        s == CHOOSE q \in 0..50 : q * q * q * q * q <= n
                                   /\ (q + 1) * (q + 1) * (q + 1) * (q + 1) * (q + 1) > n
    IN (s * s) \div 25

Polar(r, deg, y) == Point(TruncDiv(r * Cos(deg), 1000), y, TruncDiv(r * Sin(deg), 1000))

\* the number of Math.random() calls one particle of the type takes
DrawsPer(kind) == CASE kind = "leaf" -> 6 [] kind = "ribbon" -> 3 [] kind = "decor" -> 5

\* one iteration of the loop of generateTreePositions: particle i of count,
\* d(j) being the j-th Math.random() of the iteration, draw off + j of the
\* stream started at seed
TreePoint(kind, i, cnt, seed, off) ==
    LET d(j) == Draw(seed, off + j)
        rotation == Point(randHalfTurn(d(0)), randHalfTurn(d(1)), 0) IN
    CASE kind = "leaf" ->
           LET y == rand(-(TREE_HEIGHT \div 2), TREE_HEIGHT \div 2, d(2))
               rAtY == ConeRadius(y)
               theta == randAngle(d(3))
               r == (Isqrt(100 * rand(20, 100, d(4))) * rAtY) \div 100
           IN [position |-> Polar(r, theta, y), scale |-> rand(50, 120, d(5)),
               rotation |-> rotation]
      [] kind = "ribbon" ->
           LET y == (TREE_HEIGHT * i) \div cnt - TREE_HEIGHT \div 2
               theta == (1260 * i) \div cnt
               rAtY == ConeRadius(y) + 50
           IN [position |-> Polar(rAtY, theta, y), scale |-> rand(80, 150, d(2)),
               rotation |-> rotation]
      [] kind = "decor" ->
           LET biasedR == Pow04(d(2))
               y == (biasedR * TREE_HEIGHT) \div 100 - TREE_HEIGHT \div 2
               rAtY == (ConeRadius(y) * 95) \div 100
               theta == randAngle(d(3))
           IN [position |-> Polar(rAtY, theta, y), scale |-> rand(50, 150, d(4)),
               rotation |-> rotation]

generateTreePositions_offByOne(cnt, kind, seed, base) ==
    [n \in 1..(cnt + 1) |->
        TreePoint(kind, n - 1, cnt + 1, seed, base + (n - 1) * DrawsPer(kind))]

\* generateTreePositions(count, type), its Math.random() calls being the
\* draws base, base + 1, ... of the stream started at seed
generateTreePositions(cnt, kind, seed, base) ==
    [n \in 1..cnt |->
        TreePoint(kind, n - 1, cnt, seed, base + (n - 1) * DrawsPer(kind))]

Spherical_unitSine(r, u, v) ==
    LET theta == randAngle(u)
        cosPhi == (2000 * v) \div RandSteps - 1000
    IN Point(TruncDiv(r * Cos(theta), 1000), TruncDiv(r * Sin(theta), 1000),
             TruncDiv(r * cosPhi, 1000))

\* a point at distance r in the direction theta = 2 pi u, phi = acos(2 v - 1):
\* cos phi = 2 v - 1 and sin phi = sqrt(1 - cos^2 phi)
Spherical(r, u, v) ==
    LET theta == randAngle(u)
        cosPhi == (2000 * v) \div RandSteps - 1000
        sinPhi == Isqrt(1000000 - cosPhi * cosPhi)
        rSin == TruncDiv(r * sinPhi, 1000)
    IN Point(TruncDiv(rSin * Cos(theta), 1000), TruncDiv(rSin * Sin(theta), 1000),
             TruncDiv(r * cosPhi, 1000))

\* one iteration of the loop of generateExplosionPositions
ExplosionPoint(seed, off) ==
    LET d(j) == Draw(seed, off + j) IN
    Spherical(ExplosionRadius * Icbrt((1000000 * d(2)) \div RandSteps), d(0), d(1))

generateExplosionPositions(cnt, seed, base) ==
    [n \in 1..cnt |->
        ExplosionPoint(seed, base + (n - 1) * 3)]

\* one iteration of the loop of generateStarPositions
StarPoint(seed, off) ==
    LET d(j) == Draw(seed, off + j) IN
    [position |-> Spherical(rand(StarMinRadius * 100, StarMaxRadius * 100, d(2)), d(0), d(1)),
     scale |-> rand(50, 150, d(3))]

generateStarPositions(cnt, seed, base) ==
    [n \in 1..cnt |->
        StarPoint(seed, base + (n - 1) * 4)]

ParticleTypes == {"leaf", "ribbon", "decor"}
Seeds == 0..MaxSeed

\* ======================================================= sampler harness
\* the three samplers called once on the arguments drawn at the start
generate ==
    /\ ~genOut.done
    /\ genOut' = [done |-> TRUE,
                  tree |-> generateTreePositions(genCount, genType, genSeed, 0),
                  explosion |-> generateExplosionPositions(genCount, genSeed, 0),
                  stars |-> generateStarPositions(genCount, genSeed, 0)]
    /\ UNCHANGED <<genCount, genType, genSeed>>
    /\ UNCHANGED <<appVars, audioVars, handVars, histVars, partVars, sceneVars, polaroidVars>>

NotGenerated == [done |-> FALSE, tree |-> <<>>, explosion |-> <<>>, stars |-> <<>>]

\* =========================================================== ParticleSystem
\* currentPositions are kept in LerpScale-ths of a hundredth, fine enough for
\* MaxFrames interpolations by quarters to be exact
RECURSIVE Pow4(_)
Pow4(n) == IF n = 0 THEN 1 ELSE 4 * Pow4(n - 1)
LerpScale == Pow4(MaxFrames)
Fine(p) == Point(p.x * LerpScale, p.y * LerpScale, p.z * LerpScale)

\* frame deltas in tenths of a second: none, 0.1 s and a long one
Deltas == {0, 1, MaxDelta}

Clamp(v, lo, hi) == IF v < lo THEN lo ELSE IF v > hi THEN hi ELSE v

LerpFactor_unclamped(delta) == 25 * delta

\* THREE.MathUtils.clamp(delta * 2.5, 0, 1) in hundredths, delta in tenths
LerpFactor(delta) == Clamp(25 * delta, 0, 100)

\* Vector3.lerp(v, alpha): this += (v - this) * alpha on every axis
Lerp(c, v, alpha) ==
    Point(c.x + TruncDiv((v.x - c.x) * alpha, 100),
          c.y + TruncDiv((v.y - c.y) * alpha, 100),
          c.z + TruncDiv((v.z - c.z) * alpha, 100))

\* the first useMemo: both configurations, from consecutive Math.random()s
Memo(c, t, seed, base) ==
    [treeData |-> generateTreePositions(c, t, seed, base),
     explodePositions |-> generateExplosionPositions(c, seed, base + c * DrawsPer(t))]
\* the Math.random() calls the first useMemo makes
MemoCalls(c, t) == c * DrawsPer(t) + c * 3
\* the first useMemo tabulated over the props and the position in the stream
\* of Math.random() at which it can run
MemoTable ==
    [c \in 0..MaxCount, t \in ParticleTypes, seed \in Seeds,
     base \in 0..(MaxRenders * MaxCount * 9) |-> Memo(c, t, seed, base)]

\* the second useMemo: treeData.map(d => d.position.clone())
ClonePositions(data) == [n \in 1..Len(data) |-> Fine(data[n].position)]

Recompute_staleCurrent(c, t, seed, base) ==
    LET memo == MemoTable[c, t, seed, base] IN
    /\ count' = c
    /\ type' = t
    /\ treeData' = memo.treeData
    /\ explodePositions' = memo.explodePositions
    /\ UNCHANGED currentPositions

\* what a render with the props (c, t) leaves in the memoised arrays
Recompute(c, t, seed, base) ==
    LET memo == MemoTable[c, t, seed, base] IN
    /\ count' = c
    /\ type' = t
    /\ treeData' = memo.treeData
    /\ explodePositions' = memo.explodePositions
    /\ currentPositions' = ClonePositions(memo.treeData)

\* the layout effect: every instance placed at its tree position
InitialPlacement(data) == [n \in 1..Len(data) |-> Fine(data[n].position).y]

\* the parent renders the system with other count or type props
rerender ==
    /\ renders < MaxRenders
    /\ renders' = renders + 1
    /\ \E c \in 0..MaxCount, t \in ParticleTypes :
          /\ <<c, t>> # <<count, type>>
          /\ Recompute(c, t, rngSeed, rngCalls)
          /\ rngCalls' = rngCalls + MemoCalls(c, t)
    /\ meshY' = InitialPlacement(treeData')
    /\ UNCHANGED <<frames, lastDelta, rngSeed, elapsedTime>>
    /\ UNCHANGED <<appVars, audioVars, handVars, histVars, sceneVars, genVars, polaroidVars>>

\* the parent renders the system with the other appState prop
modeChange ==
    /\ appState' = Other(appState)
    /\ UNCHANGED <<rotationInput, gestureStatus, photos, isPlaying>>
    /\ UNCHANGED <<audioVars, handVars, histVars, viewVars>>

\* the target of particle n (1-based) in the mode of this frame
Target(n) == IF appState = TREE THEN treeData[n].position ELSE explodePositions[n]

\* Math.sin(time + i * 0.1) * (isTree ? 0.05 : 0.2) for particle i (0-based),
\* time in tenths of a second, in the unit of currentPositions
Noise(i, time, isTree) ==
    TruncDiv(Sin(((time + i) * 573) \div 100) * (IF isTree THEN 5 ELSE 20) * LerpScale, 1000)

\* the y of dummy.position for particle n: the current position, plus the
\* noise when the mode is TREE and the type is leaf
DummyY(n, c, time) ==
    c.y + (IF appState = TREE /\ type = "leaf" THEN Noise(n - 1, time, appState = TREE) ELSE 0)

\* the useFrame callback of ParticleSystem (the mesh is mounted)
useFrame(delta) ==
    /\ frames < MaxFrames
    /\ frames' = frames + 1
    /\ lastDelta' = delta
    /\ elapsedTime' = elapsedTime + delta
    /\ currentPositions' =
          [n \in 1..count |->
              Lerp(currentPositions[n], Fine(Target(n)), LerpFactor(delta))]
    /\ meshY' = [n \in 1..count |-> DummyY(n, currentPositions'[n], elapsedTime')]
    /\ UNCHANGED <<count, type, treeData, explodePositions, renders, rngSeed, rngCalls>>
    /\ UNCHANGED <<appVars, audioVars, handVars, histVars, sceneVars, genVars, polaroidVars>>

particleFrame == \E delta \in Deltas : useFrame(delta)

\* a sample reaches App from the hand controller
GestureSamples == {Classify(r) : r \in FewDetections}
gestureSample ==
    /\ \E g \in GestureSamples : onGestureUpdate(g)
    /\ UNCHANGED <<results, pollVars>>
    /\ UNCHANGED <<audioVars, handVars, viewVars>>

\* ==================================================================== Scene
\* (rotationTarget - 0.5) * 2.0 in hundredths
Torque(rotationTarget) == (rotationTarget - 50) * 2

YawStep_inputOnly(rotationTarget, delta) == Torque(rotationTarget) * delta

\* what the useFrame callback of Scene adds to rotation.y, in thousandths of
\* a radian: torque * delta, then delta * 0.1
YawStep(rotationTarget, delta) == Torque(rotationTarget) * delta + 10 * delta

\* the useFrame callback of Scene (the group is mounted)
sceneFrame ==
    /\ sceneFrames < MaxFrames
    /\ sceneFrames' = sceneFrames + 1
    /\ \E delta \in Deltas :
          /\ sceneDelta' = delta
          /\ yaw' = yaw + YawStep(rotationInput, delta)
    /\ UNCHANGED <<appVars, audioVars, handVars, histVars, partVars, genVars, polaroidVars>>

\* ================================================================= Polaroid
\* Positions in hundredths, rotations in thousandths of a radian.
\* the Euler angles of lookAt(tPos, (0, y, 0), up) for a point in the
\* direction theta (degrees) from the axis: a turn about y by asin(cos theta),
\* and x = z = -pi when sin theta < 0
LookAway(theta) ==
    LET flip == IF theta > 180 THEN -3142 ELSE 0
        deg == IF theta <= 180 THEN 90 - theta ELSE theta - 270
    IN Point(flip, TruncDiv(deg * 17453, 1000), flip)

\* Vector3.normalize().multiplyScalar(len): a zero vector stays zero
Normalized(v, len) ==
    LET norm == Isqrt(v.x * v.x + v.y * v.y + v.z * v.z) IN
    IF norm = 0 THEN Point(0, 0, 0)
    ELSE Point(TruncDiv(v.x * len, norm), TruncDiv(v.y * len, norm), TruncDiv(v.z * len, norm))

\* the useMemo of Polaroid, its Math.random() calls being the draws off,
\* off + 1, ... of the stream started at seed
PolaroidMemo(seed, off) ==
    LET d(j) == Draw(seed, off + j)
        y == (1800 * d(0)) \div RandSteps - 900
        rAtY == (600 * (1800 - (y + 900))) \div 1800
        theta == randAngle(d(1))
        exDir == Point((100 * d(2)) \div RandSteps - 50, (100 * d(3)) \div RandSteps - 50,
                       (100 * d(4)) \div RandSteps - 50)
    IN [treePos |-> Polar((rAtY * 80) \div 100, theta, y),
        explodePos |-> Normalized(exDir, 2000 + (1500 * d(5)) \div RandSteps),
        rotation |-> LookAway(theta)]

\* the Polaroid of the photo at the index, mounted: the group at explodePos
NewPolaroid(seed, index) ==
    LET memo == PolaroidMemo(seed, 6 * index) IN
    [index |-> index, treePos |-> memo.treePos, explodePos |-> memo.explodePos,
     rotation |-> memo.rotation, position |-> memo.explodePos, euler |-> Point(0, 0, 0)]

\* frame deltas of a scene that may have been stalled: those of Deltas and a
\* frame after a stall of three times the long one
LongDeltas == Deltas \cup {3 * MaxDelta}

\* THREE.MathUtils.lerp(x, y, t), t in hundredths
LerpScalar(x, y, t) == x + TruncDiv((y - x) * t, 100)

\* delta * 2 in hundredths, delta in tenths of a second
PolaroidAlpha(delta) == 20 * delta

\* the target of the Polaroid in the mode of this frame
TargetPos == IF appState = TREE THEN polaroid.treePos ELSE polaroid.explodePos

\* the useFrame callback of Polaroid (the group is mounted)
polaroidFrame ==
    /\ polaroidFrames < MaxFrames
    /\ polaroidFrames' = polaroidFrames + 1
    /\ \E delta \in LongDeltas :
          LET alpha == PolaroidAlpha(delta)
              time == elapsedTime + delta
              sway == TruncDiv(Sin(((time + 10 * polaroid.index) * 573) \div 100) * 100, 1000)
              e == polaroid.euler
              r == polaroid.rotation
          IN /\ elapsedTime' = time
             /\ polaroid' =
                   [polaroid EXCEPT
                      !.position = Lerp(polaroid.position, TargetPos, alpha),
                      !.euler = IF appState = TREE
                                   THEN Point(LerpScalar(e.x, r.x, alpha),
                                              LerpScalar(e.y, r.y, alpha),
                                              LerpScalar(e.z, r.z + sway, alpha))
                                   ELSE Point(e.x + 50 * delta, e.y + 30 * delta, e.z)]
    /\ UNCHANGED <<count, type, treeData, explodePositions, currentPositions,
                   frames, lastDelta, renders, rngSeed, rngCalls, meshY>>
    /\ UNCHANGED <<appVars, audioVars, handVars, histVars, sceneVars, genVars>>

\* ========================================================== specifications
NoGesture == [isPinching |-> FALSE, handPresent |-> FALSE, palmPositionX |-> NeutralPalmX]

\* after the first render and its effects: the autoplay attempt is under
\* way and the vision model is loading
InitApp ==
    /\ appState = TREE
    /\ rotationInput = NeutralPalmX
    /\ gestureStatus = "Ready"
    /\ photos = <<>>
    /\ isPlaying = FALSE
    /\ \E allowed \in BOOLEAN :
          /\ audioPaused = ~allowed
          /\ playPromises = <<Promise("autoplay", allowed)>>

InitHand ==
    /\ loading = TRUE
    /\ handLandmarker = FALSE
    /\ stream = FALSE
    /\ camera = "idle"
    /\ listening = FALSE
    /\ requestRef = FALSE
    /\ videoTime = 0
    /\ lastVideoTime = -1
    /\ mounted = TRUE
    /\ tracksLive = FALSE
    /\ modelOpen = FALSE

InitHist ==
    /\ gesture = NoGesture
    /\ results = NoHands
    /\ lastOp = "mount"
    /\ opTick = 0
    /\ prevMode = TREE
    /\ modeBeforeClicks = TREE
    /\ clickParity = 0
    /\ pollKind = "none"
    /\ threwAt = -1
    /\ sampleTime = -1

\* a mounted particle system
InitParticles ==
    /\ \E c \in 0..MaxCount, t \in ParticleTypes, seed \in Seeds :
          LET memo == MemoTable[c, t, seed, 0] IN
          /\ count = c
          /\ type = t
          /\ treeData = memo.treeData
          /\ explodePositions = memo.explodePositions
          /\ currentPositions = ClonePositions(memo.treeData)
          /\ meshY = InitialPlacement(memo.treeData)
          /\ rngSeed = seed
          /\ rngCalls = MemoCalls(c, t)
    /\ frames = 0
    /\ lastDelta = 0
    /\ renders = 0
    /\ elapsedTime = 0

\* a system of no particles, for the specifications that leave it alone
NoParticles ==
    /\ count = 0
    /\ type = "leaf"
    /\ treeData = <<>>
    /\ explodePositions = <<>>
    /\ currentPositions = <<>>
    /\ meshY = <<>>
    /\ frames = 0
    /\ lastDelta = 0
    /\ renders = 0
    /\ elapsedTime = 0
    /\ rngSeed = 0
    /\ rngCalls = 0

InitScene ==
    /\ yaw = 0
    /\ sceneFrames = 0
    /\ sceneDelta = 0

\* a mounted Polaroid for a photo of the list
InitPolaroid ==
    /\ \E seed \in Seeds, index \in 0..(MaxPhotos - 1) : polaroid = NewPolaroid(seed, index)
    /\ polaroidFrames = 0

\* no photo, for the specifications that leave the ornaments alone
NoPolaroid ==
    /\ polaroid = [index |-> 0, treePos |-> Point(0, 0, 0), explodePos |-> Point(0, 0, 0),
                   rotation |-> Point(0, 0, 0), position |-> Point(0, 0, 0),
                   euler |-> Point(0, 0, 0)]
    /\ polaroidFrames = 0

InitSampler ==
    /\ genCount \in 0..MaxGenCount
    /\ genType \in ParticleTypes
    /\ genSeed \in 0..MaxGenSeed
    /\ genOut = NotGenerated

NoSampler ==
    /\ genCount = 0
    /\ genType = "leaf"
    /\ genSeed = 0
    /\ genOut = NotGenerated

Init == InitApp /\ InitHand /\ InitHist /\ NoParticles /\ InitScene /\ NoSampler /\ NoPolaroid

Next ==
    \/ toggleState
    \/ toggleMusic
    \/ SettlePlay
    \/ handlePhotoUpload
    \/ initResolved
    \/ initRejected
    \/ webcamGranted
    \/ webcamDenied
    \/ videoFrame
    \/ loadedData(FewDetections)
    \/ animationFrame(FewDetections)

Spec == Init /\ [][Next]_vars

\* the hand controller alone, fed every detection of the grid
NextClassify ==
    \/ initResolved
    \/ initRejected
    \/ webcamGranted
    \/ webcamDenied
    \/ videoFrame
    \/ loadedData(AllDetections)
    \/ animationFrame(AllDetections)

SpecClassify == Init /\ [][NextClassify]_vars

\* one particle system under every sequence of props and frames
InitParticleSystem ==
    InitApp /\ InitHand /\ InitHist /\ InitParticles /\ InitScene /\ NoSampler /\ NoPolaroid
NextParticles ==
    \/ particleFrame
    \/ rerender
    \/ modeChange
SpecParticles == InitParticleSystem /\ [][NextParticles]_vars

\* the hand controller with its teardown at any moment
NextTeardown ==
    \/ initResolved
    \/ initRejected
    \/ webcamGranted
    \/ webcamDenied
    \/ videoFrame
    \/ loadedData(FewDetections)
    \/ animationFrame(FewDetections)
    \/ unmount
SpecTeardown == Init /\ [][NextTeardown]_vars

\* the tree group under the rotation input the gestures set
NextScene ==
    \/ sceneFrame
    \/ gestureSample
SpecScene == Init /\ [][NextScene]_vars

\* one photo ornament under every sequence of modes and frames
InitOrnament ==
    InitApp /\ InitHand /\ InitHist /\ NoParticles /\ InitScene /\ NoSampler /\ InitPolaroid
NextPolaroid ==
    \/ polaroidFrame
    \/ modeChange
SpecPolaroid == InitOrnament /\ [][NextPolaroid]_vars

\* the samplers on their own
InitGenerators ==
    InitApp /\ InitHand /\ InitHist /\ NoParticles /\ InitScene /\ InitSampler /\ NoPolaroid
NextSampler == generate
SpecSampler == InitGenerators /\ [][NextSampler]_vars

\* =================================================================== claims
SampleHandled == lastOp = "handleGestureUpdate"

\* C1: a click flips the mode whatever it is: after an odd number of clicks
\* since the last hand-present sample the mode is the other one, after an
\* even number (two successive clicks) it is the mode the clicks started from.
C1_ClickIsPureFlip ==
    /\ clickParity = 0 => appState = modeBeforeClicks
    /\ clickParity = 1 => appState = Other(modeBeforeClicks)
    /\ lastOp = "toggleState" => appState = Other(prevMode)

\* two clicks after an open hand: EXPLODE -> TREE -> EXPLODE
C1_Witness ==
    /\ lastOp = "toggleState"
    /\ clickParity = 0
    /\ modeBeforeClicks = EXPLODE
    /\ prevMode = TREE
    /\ appState = EXPLODE

\* C2: right after a hand-present sample is handled the mode is TREE when the
\* sample pinches and EXPLODE when it does not, whatever came before.
C2_GestureForcesMode ==
    (SampleHandled /\ gesture.handPresent) =>
        /\ gesture.isPinching => appState = TREE
        /\ ~gesture.isPinching => appState = EXPLODE

\* a pinch met the mode EXPLODE that a click had set and forced TREE
C2_Witness ==
    /\ SampleHandled
    /\ gesture.handPresent /\ gesture.isPinching
    /\ prevMode = EXPLODE
    /\ appState = TREE

\* C3 as the spec states it: after a no-hand sample is handled the rotation
\* input is the neutral 0.5.
C3_NoHandNeutralRotation ==
    (SampleHandled /\ ~gesture.handPresent) => rotationInput = NeutralPalmX

\* C4: handling a no-hand sample changes the status text and nothing else of
\* the App state: mode, photo list, rotation input and isPlaying are as before.
C4_NoHandLeavesMode ==
    [][(opTick' # opTick /\ lastOp' = "handleGestureUpdate" /\ ~gesture'.handPresent)
         => /\ appState' = appState
            /\ photos' = photos
            /\ rotationInput' = rotationInput
            /\ isPlaying' = isPlaying
            /\ gestureStatus' = "No Hand Detected"]_vars

\* a no-hand sample handled in EXPLODE mode with a photo uploaded
C4_Witness ==
    /\ SampleHandled
    /\ ~gesture.handPresent
    /\ gestureStatus = "No Hand Detected"
    /\ prevMode = EXPLODE /\ appState = EXPLODE
    /\ Len(photos) > 0

\* the squared 2D distance between thumb tip and index tip of the detection
\* that gave the last sample
TipDist2 ==
    LET lm == results.landmarks[1] IN
    (lm[4].x - lm[8].x) * (lm[4].x - lm[8].x) + (lm[4].y - lm[8].y) * (lm[4].y - lm[8].y)

\* C5: the sample pinches exactly when the x/y distance of the two tips is
\* below 0.08; at exactly 0.08 it does not pinch and the mode becomes EXPLODE;
\* the z coordinates play no part.
C5_PinchStrictThreshold ==
    (SampleHandled /\ gesture.handPresent) =>
        /\ gesture.isPinching <=> TipDist2 < PinchThreshold * PinchThreshold
        /\ TipDist2 = PinchThreshold * PinchThreshold =>
               (~gesture.isPinching /\ appState = EXPLODE)
        /\ appState = (IF TipDist2 < PinchThreshold * PinchThreshold THEN TREE ELSE EXPLODE)

\* tips exactly 0.08 apart in the image and at different depths
C5_Witness ==
    /\ SampleHandled
    /\ gesture.handPresent
    /\ TipDist2 = PinchThreshold * PinchThreshold
    /\ results.landmarks[1][4].z # results.landmarks[1][8].z
    /\ ~gesture.isPinching
    /\ appState = EXPLODE

\* the vision model failed to load, or the camera was refused or is missing
VisionFailed ==
    \/ ~loading /\ ~handLandmarker
    \/ camera \in {"denied", "unsupported"}
\* no sample was ever handled: every handled sample replaces the status text
NoSampleEver ==
    /\ gestureStatus = "Ready"
    /\ rotationInput = NeutralPalmX
    /\ gesture = NoGesture
    /\ lastOp # "handleGestureUpdate"

\* C10: once the vision model or the camera has failed no sample is ever
\* handled (status, rotation input and mode are never written by a gesture),
\* and every click still flips the mode.
C10_VisionFailureInert ==
    [][VisionFailed' =>
         /\ NoSampleEver'
         /\ (VisionFailed /\ opTick' # opTick) =>
                (lastOp' # "handleGestureUpdate"
                 /\ (lastOp' = "toggleState" => appState' = Other(appState)))]_vars

\* the camera was refused and a click then put the scene in EXPLODE mode
C10_Witness ==
    /\ camera = "denied"
    /\ lastOp = "toggleState"
    /\ appState = EXPLODE
    /\ gestureStatus = "Ready"

\* C6: called with any count >= 0 and any type, generateTreePositions,
\* generateExplosionPositions and generateStarPositions each return exactly
\* count entries, numbered from the first to the count-th.
C6_SamplersReturnCount ==
    genOut.done =>
        /\ Len(genOut.tree) = genCount /\ DOMAIN genOut.tree = 1..genCount
        /\ Len(genOut.explosion) = genCount /\ DOMAIN genOut.explosion = 1..genCount
        /\ Len(genOut.stars) = genCount /\ DOMAIN genOut.stars = 1..genCount

\* the samplers were called with count 0 for a ribbon and returned nothing
C6_Witness ==
    /\ genOut.done
    /\ genCount = 0
    /\ genType = "ribbon"
    /\ genOut.tree = <<>> /\ genOut.explosion = <<>> /\ genOut.stars = <<>>

\* C7: at every frame and after every change of the count or type props the
\* tree data, the explode positions and the current positions all have count
\* entries, so an index below count is present in all three.
C7_ArraysAligned ==
    /\ DOMAIN treeData = 1..count
    /\ DOMAIN explodePositions = 1..count
    /\ DOMAIN currentPositions = 1..count

\* a system rendered again with other props, two particles, a frame drawn
C7_Witness ==
    /\ renders > 0
    /\ frames > 0
    /\ count = 2
    /\ Len(treeData) = 2 /\ Len(explodePositions) = 2 /\ Len(currentPositions) = 2

Axes == {"x", "y", "z"}
Between(a, m, b) == (a <= m /\ m <= b) \/ (b <= m /\ m <= a)
\* m = c + (q / 4) (t - c) on every axis, for one q of 0, 1/4, .. 1
OnSegment(c, m, t) ==
    \E q \in 0..4 : \A a \in Axes : 4 * (m[a] - c[a]) = q * (t[a] - c[a])
Dist1(p, q) == Abs(p.x - q.x) + Abs(p.y - q.y) + Abs(p.z - q.z)

\* C8: a frame leaves every particle on the segment from where it was to the
\* target of the mode, never past it; a frame of 0.1 s leaves exactly three
\* quarters of the offset to the target, so the distance falls strictly
\* while it is not zero and tends to zero without reaching it.
C8_LerpConverges ==
    [][frames' = frames + 1 =>
         \A n \in 1..count :
            LET t == Fine(Target(n))
                c == currentPositions[n]
                m == currentPositions'[n]
            IN /\ OnSegment(c, m, t)
               /\ \A a \in Axes : Between(c[a], m[a], t[a])
               /\ lastDelta' = 1 =>
                     /\ \A a \in Axes : 4 * (t[a] - m[a]) = 3 * (t[a] - c[a])
                     /\ c # t => (Dist1(m, t) < Dist1(c, t) /\ m # t)]_vars

\* two frames of 0.1 s in EXPLODE mode: a particle has nine sixteenths of the
\* way from its tree position to its explode position still to go
C8_Witness ==
    /\ frames = 2
    /\ lastDelta = 1
    /\ appState = EXPLODE
    /\ \E n \in 1..count :
          LET t == Fine(explodePositions[n])
              s0 == Fine(treeData[n].position)
              c == currentPositions[n]
          IN /\ s0 # t
             /\ c # t
             /\ \A a \in Axes : 16 * (t[a] - c[a]) = 9 * (t[a] - s0[a])

\* C9: a frame adds torque * delta + 0.1 * delta to the yaw, torque being
\* (rotation input - 0.5) * 2; with the rotation input at 0.5 every frame of
\* delta > 0 increases the yaw.
C9_YawAccumulates ==
    [][sceneFrames' = sceneFrames + 1 =>
         LET torque == (rotationInput - NeutralPalmX) * 2 IN
         /\ yaw' - yaw = torque * sceneDelta' + 10 * sceneDelta'
         /\ (rotationInput = NeutralPalmX /\ sceneDelta' > 0) => yaw' > yaw]_vars

\* two frames of 0.1 s with the rotation input never moved from 0.5
C9_Witness ==
    /\ sceneFrames = 2
    /\ gestureStatus = "Ready"
    /\ rotationInput = NeutralPalmX
    /\ yaw = 20

\* a sample reached the App handler in this step
SampleStep == opTick' # opTick /\ lastOp' = "handleGestureUpdate"

\* C11: a poll whose detection throws emits no sample and leaves the mode,
\* the rotation input and the rest of the App state alone; the exception
\* stops nothing: the timestamp is marked processed, the loop is scheduled
\* again and the controller keeps its model and camera, so the next new
\* video frame is polled like any other.
C11_DetectionThrowSwallowed ==
    [][threwAt' # threwAt =>
         /\ pollKind' = "threw"
         /\ threwAt' = videoTime
         /\ ~SampleStep
         /\ UNCHANGED <<appVars, gesture, results, lastOp, sampleTime>>
         /\ lastVideoTime' = videoTime
         /\ requestRef'
         /\ UNCHANGED <<handLandmarker, camera, videoTime, lifeVars>>]_vars

\* detection threw on the frame of timestamp 0 and the frame of timestamp 1
\* gave a sample
C11_Witness ==
    /\ threwAt = 0
    /\ sampleTime = 1
    /\ pollKind = "sample"
    /\ SampleHandled

\* C12: a sample is emitted only by a poll that finds the video timestamp
\* different from the last processed one, and that poll marks the timestamp
\* processed, so no timestamp gives two samples; a poll that finds the
\* timestamp unchanged changes nothing and schedules the next poll.
C12_TimestampGating ==
    [][/\ (SampleStep \/ sampleTime' # sampleTime) =>
             /\ lastVideoTime < videoTime
             /\ sampleTime < videoTime
             /\ sampleTime' = videoTime
             /\ lastVideoTime' = videoTime
       /\ (pollKind' = "stale" /\ pollKind # "stale") =>
             /\ videoTime = lastVideoTime
             /\ UNCHANGED <<appVars, gesture, results, lastOp, opTick, sampleTime,
                            threwAt, lastVideoTime>>
             /\ requestRef'
       /\ sampleTime' <= lastVideoTime' /\ lastVideoTime' <= videoTime']_vars

\* the frame of timestamp 1 gave a sample and a further poll found nothing new
C12_Witness ==
    /\ videoTime = 1
    /\ sampleTime = 1
    /\ lastVideoTime = 1
    /\ pollKind = "stale"
    /\ gesture.handPresent

\* C17 as the spec states it: once the controller is unmounted the tracks of
\* the camera are stopped, the landmarker is closed and no sample reaches
\* the App any more, whenever the teardown happens.
C17_TeardownReleases ==
    [][~mounted' =>
         /\ ~tracksLive'
         /\ ~modelOpen'
         /\ ~mounted => (~SampleStep /\ UNCHANGED <<appVars, gesture>>)]_vars

\* C13 as the spec states it: a music toggle leaves the mode, the rotation
\* input and the photo list alone, and a step that changes the mode (a click
\* or a gesture) leaves the audio element and the isPlaying flag alone.
C13_AudioIndependent ==
    [][/\ (opTick' # opTick /\ lastOp' = "toggleMusic") =>
             UNCHANGED <<appState, rotationInput, photos>>
       /\ appState' # appState =>
             (audioPaused' = audioPaused /\ isPlaying' = isPlaying)]_vars

\* C19 as the spec states it: with no play request pending, isPlaying is
\* true exactly when the audio element is not paused.
C19_FlagMatchesAudio ==
    playPromises = <<>> => (isPlaying <=> ~audioPaused)

\* the squared horizontal radius and the squared length of a point, in
\* squares of hundredths
Radius2(p) == p.x * p.x + p.z * p.z
Norm2(p) == p.x * p.x + p.y * p.y + p.z * p.z

\* C14: every leaf point of generateTreePositions has its height in [-9, 9]
\* and its horizontal radius at most 7 * (1 - (y + 9) / 18), that is
\* 18 * radius <= 7 * (9 - y).
C14_LeafInsideCone ==
    (genOut.done /\ genType = "leaf") =>
        \A n \in 1..Len(genOut.tree) :
            LET p == genOut.tree[n].position IN
            /\ -900 <= p.y /\ p.y <= 900
            /\ 324 * Radius2(p) <= 49 * (900 - p.y) * (900 - p.y)

\* several leaves, one of them off the axis and further out than 0.7 of the
\* radius of the cone at its height
C14_Witness ==
    /\ genOut.done
    /\ genType = "leaf"
    /\ genCount >= 2
    /\ \E n \in 1..Len(genOut.tree) :
          LET p == genOut.tree[n].position IN
          /\ Radius2(p) > 0
          /\ 2 * 324 * Radius2(p) > 49 * (900 - p.y) * (900 - p.y)

\* C15: every position of generateExplosionPositions is at most 30 from the
\* origin.
C15_ExplosionWithinRadius ==
    genOut.done =>
        \A n \in 1..Len(genOut.explosion) :
            Norm2(genOut.explosion[n]) <= (ExplosionRadius * 100) * (ExplosionRadius * 100)

\* several positions, one of them further than 26 from the origin
C15_Witness ==
    /\ genOut.done
    /\ genCount >= 2
    /\ \E n \in 1..Len(genOut.explosion) : Norm2(genOut.explosion[n]) > 2600 * 2600

\* C16 as the spec states it: after a frame the rendered y of a particle is
\* its stored y plus sin(time + 0.1 i) times 0.05 in TREE mode and 0.2 in
\* EXPLODE mode for a leaf, plus nothing for a ribbon or a decoration; the
\* stored position is the interpolated one, without the offset.
C16_HoverOffset ==
    [][frames' = frames + 1 =>
         \A n \in 1..count :
            /\ meshY'[n] - currentPositions'[n].y =
                  (IF type = "leaf" THEN Noise(n - 1, elapsedTime', appState = TREE) ELSE 0)
            /\ currentPositions'[n] =
                  Lerp(currentPositions[n], Fine(Target(n)), LerpFactor(lastDelta'))]_vars

\* C18 as the spec states it: a frame of a Polaroid never takes it past its
\* target and never leaves it further from the target than it was, whatever
\* the delta.
C18_OrnamentNeverOvershoots ==
    [][polaroidFrames' = polaroidFrames + 1 =>
         /\ \A a \in Axes : Between(polaroid.position[a], polaroid'.position[a], TargetPos[a])
         /\ Dist1(polaroid'.position, TargetPos) <= Dist1(polaroid.position, TargetPos)]_vars

====
